---- MODULE Spec2Model ----
(***************************************************************************)
(* The tool-augmented chat session of gymmando-rnd: four near-duplicate    *)
(* scripts that launch a tool-provider subprocess, list its tools, and     *)
(* relay tool calls between a hosted chat model and the subprocess.        *)
(*                                                                         *)
(*   "youtube"    src/rnd/gymmando_youtube.py     GymmandoYouTubeMCP.chat  *)
(*   "tavily"     src/rnd/search/tavily_mcp.py    search_with_mcp          *)
(*   "websearch"  src/rnd/open_search_mcp.py      search_with_mcp          *)
(*   "nutrition"  src/search/opennutrition_mcp.py query_with_mcp           *)
(*                                                                         *)
(* One step of the model is the code that runs between two suspension      *)
(* points of run(): entering the connection scope, session.initialize(),   *)
(* session.list_tools(), messages.create(), session.call_tool() and the    *)
(* exit of the connection scope.  The subprocess and the hosted model are  *)
(* the environment: each outstanding round-trip either returns a value     *)
(* drawn from a small set or raises.                                       *)
(***************************************************************************)
EXTENDS Naturals, Sequences, FiniteSets

VARIABLES
    variant,         \* which script is running
    environ,         \* os.environ: variable name -> value (Unset when absent)
    pathExists,      \* os.path.exists(OPENNUTRITION_MCP_PATH)
    pc,              \* position of run()
    user_message,    \* the argument of run()
    server_params,   \* StdioServerParameters built by run()
    connOpen,        \* the stdio_client / ClientSession scope is entered
    launched,        \* subprocesses launched so far
    acquired,        \* times the connection scope was entered
    released,        \* times the connection scope was exited
    tools_response,  \* tools returned by session.list_tools()
    anthropic_tools, \* the tool menu sent to the model
    messages,        \* the transcript
    response,        \* the model response bound to `response`
    final_response,  \* websearch only: the second response
    tool_use_blocks, \* the request blocks run() dispatches for `response`
    blockIdx,        \* index in tool_use_blocks of the call in flight
    received,        \* history: every model response received, in order
    modelReqs,       \* history: every model-turn request issued, in order
    calls,           \* history: every call_tool issued (the block it was for)
    toolDone,        \* history: call_tool round-trips that returned
    nextId,          \* environment: next fresh tool_use id
    result,          \* the value run() returned
    error,           \* the exception run() raised
    stdin,           \* the lines standard input will deliver to input()
    lineNo,          \* number of lines the __main__ loop has read
    sessions,        \* history: the lines search() was called with, in order
    cliPc            \* position of the __main__ loop (None: no loop)

vars == <<variant, environ, pathExists, pc, user_message, server_params,
          connOpen, launched, acquired, released, tools_response,
          anthropic_tools, messages, response, final_response,
          tool_use_blocks, blockIdx, received, modelReqs, calls, toolDone,
          nextId, result, error, stdin, lineNo, sessions, cliPc>>

(***************************************************************************)
(* Bounds of the model.                                                    *)
(***************************************************************************)
\* most content blocks in one model response
MaxBlocks == 2
\* most model turns the environment lets a run take before it answers
MaxModelTurns == 2
\* most tools the subprocess reports
MaxTools == 2

(***************************************************************************)
(* Values.                                                                 *)
(***************************************************************************)
Variants == {"youtube", "tavily", "websearch", "nutrition"}
LoopingVariants == {"tavily", "nutrition"}

\* Python's None, for a string-valued variable
None == "<none>"
\* an environment variable that is not set
Unset == "<unset>"

EnvNames == {"ANTHROPIC_API_KEY", "YOUTUBE_API_KEY", "TAVILY_API_KEY",
             "OPENNUTRITION_MCP_PATH", "NODE_ENV", "LOG_LEVEL", "SILENT"}

\* `not value` is false: the variable is set and not the empty string
Truthy(v) == v # Unset /\ v # ""

\* no response bound yet
NoResponse == [stop_reason |-> None, content |-> <<>>]

\* the stop reasons the hosted model can give
StopReasons == {"tool_use", "end_turn"}

\* the user messages run() is called with
Queries == {"ping"}
AllQueries == {"ping", "squat form", ""}

(***************************************************************************)
(* The environment's inputs: tool descriptors and model responses.         *)
(***************************************************************************)
ToolNames == <<"lookup", "search">>

Descriptor(n, d, s) == [name |-> n, description |-> d, inputSchema |-> s]

Descriptors ==
    {Descriptor(ToolNames[i], d, s) :
        i \in 1..Len(ToolNames), d \in {"finds", "fetches"}, s \in {"q:str", "n:int"}}

\* tool lists the subprocess may report: names unique within a session
ToolLists ==
    {tl \in UNION {[1..n -> Descriptors] : n \in 0..MaxTools} :
        \A i, j \in 1..Len(tl) : i # j => tl[i].name # tl[j].name}

\* the tool lists of the main specification: the empty menu and a full one
MainToolLists ==
    {<<>>,
     [i \in 1..(IF MaxTools < Len(ToolNames) THEN MaxTools ELSE Len(ToolNames)) |->
        Descriptor(ToolNames[i], "finds", "q:str")]}

\* what a content block of a response can be
BlockKinds == {"text", "empty_text", "tool_use"}
Shapes == UNION {[1..n -> BlockKinds] : n \in 0..MaxBlocks}

TextBlock(t) == [type |-> "text", text |-> t]
ToolUseBlock(id, n, in) == [type |-> "tool_use", id |-> id, name |-> n, input |-> in]

\* the non-empty text of a text block at position i of a response
Texts == <<"pong", "42", "done", "thanks">>
TextAt(i) == Texts[((i - 1) % Len(Texts)) + 1]
\* the tool and input a request block with identifier id asks for
NameOf(id) == ToolNames[(id % Len(ToolNames)) + 1]
InputOf(id) == IF (id \div 2) % 2 = 0 THEN "q=x" ELSE "q=y"

\* a response content of the given shape; request identifiers are fresh
BuildContent(shape, id0) ==
    [i \in 1..Len(shape) |->
        CASE shape[i] = "text" -> TextBlock(TextAt(i))
          [] shape[i] = "empty_text" -> TextBlock("")
          [] OTHER -> ToolUseBlock(id0 + i - 1, NameOf(id0 + i - 1), InputOf(id0 + i - 1))]

\* what the subprocess returns from call_tool
ToolOutputs == {"value=42"}

(***************************************************************************)
(* Pure functions of the scripts.                                          *)
(***************************************************************************)
\* the credential the Anthropic client sends: every script reads it from
\* the environment (Anthropic() / os.environ.get) when it is constructed
AnthropicKey == environ["ANTHROPIC_API_KEY"]

\* seeded fault: the nutrition script does not look at the configured path
ConfigErrorPathUnchecked ==
    CASE variant = "youtube" ->
            IF ~Truthy(AnthropicKey) THEN "ValueError"
            ELSE IF ~Truthy(environ["YOUTUBE_API_KEY"]) THEN "ValueError"
            ELSE None
      [] variant = "tavily" ->
            IF ~Truthy(environ["TAVILY_API_KEY"]) THEN "ValueError" ELSE None
      [] OTHER -> None

\* the exception the checks at the entry of run() raise, None when they pass
ConfigError ==
    CASE variant = "youtube" ->
            IF ~Truthy(AnthropicKey) THEN "ValueError"
            ELSE IF ~Truthy(environ["YOUTUBE_API_KEY"]) THEN "ValueError"
            ELSE None
      [] variant = "tavily" ->
            IF ~Truthy(environ["TAVILY_API_KEY"]) THEN "ValueError" ELSE None
      [] variant = "nutrition" ->
            IF Truthy(environ["OPENNUTRITION_MCP_PATH"]) /\ ~pathExists
            THEN "FileNotFoundError" ELSE None
      [] OTHER -> None

\* env = {**os.environ, <overrides>}: the override wins, the rest is inherited
Overridden(base, over) ==
    [n \in EnvNames |-> IF n \in DOMAIN over THEN over[n] ELSE base[n]]

LogOverrides ==
    [NODE_ENV |-> "production", LOG_LEVEL |-> "silent", SILENT |-> "1"]

\* os.path.abspath of a relative path
AbsPath(p) == <<"<cwd>", p>>

\* the StdioServerParameters each script builds
CreateServerParams ==
    CASE variant = "youtube" ->
            [command |-> "npx", args |-> <<"-y", "yt-mcp">>,
             env |-> Overridden([n \in EnvNames |-> Unset],
                                [YOUTUBE_API_KEY |-> environ["YOUTUBE_API_KEY"]])]
      [] variant = "tavily" ->
            [command |-> "npx", args |-> <<"--quiet", "-y", "tavily-mcp@latest">>,
             env |-> Overridden(Overridden(environ,
                                    [TAVILY_API_KEY |-> environ["TAVILY_API_KEY"]]),
                                LogOverrides)]
      [] variant = "websearch" ->
            [command |-> "npx", args |-> <<"--quiet", "open-websearch">>,
             env |-> Overridden(environ, LogOverrides)]
      [] OTHER ->
            IF Truthy(environ["OPENNUTRITION_MCP_PATH"])
            THEN [command |-> "node",
                  args |-> <<AbsPath(environ["OPENNUTRITION_MCP_PATH"])>>,
                  env |-> Overridden(environ, LogOverrides)]
            ELSE [command |-> "npx",
                  args |-> <<"--quiet", "-y", "github:deadletterq/mcp-opennutrition">>,
                  env |-> Overridden(environ, LogOverrides)]

NoServerParams == [command |-> None, args |-> <<>>, env |-> [n \in EnvNames |-> Unset]]

\* seeded fault: the description is filled from the wrong field
ToAnthropicToolWrongField(tool) ==
    [name |-> tool.name, description |-> tool.name,
     input_schema |-> tool.inputSchema]

\* one entry of the tool menu, built from one discovered tool
ToAnthropicTool(tool) ==
    [name |-> tool.name, description |-> tool.description,
     input_schema |-> tool.inputSchema]

\* the tool menu: one entry per discovered tool, in order
ConvertTools(tools) == [i \in 1..Len(tools) |-> ToAnthropicTool(tools[i])]

\* the system instruction each script passes to messages.create
SystemPrompt ==
    CASE variant = "tavily" -> "fitness only"
      [] variant = "nutrition" -> "nutrition only"
      [] OTHER -> None

\* seeded fault: a request block in the content also keeps the loop going
WantsToolOrHasRequest(r) ==
    \/ r.stop_reason = "tool_use"
    \/ \E i \in 1..Len(r.content) : r.content[i].type = "tool_use"

\* seeded fault: a limit of one tool round, later requests are not honoured
WantsToolUntilLimit(r) == r.stop_reason = "tool_use" /\ Len(received) < 1

\* the loop condition: the model asks for a tool
WantsTool(r) == r.stop_reason = "tool_use"

IsToolUse(block) == block.type = "tool_use"

\* [block for block in response.content if block.type == "tool_use"]
ToolUseBlocksOf(content) == SelectSeq(content, IsToolUse)

\* seeded fault: the `and block.text` test is dropped
HasTextAttribute(block) == "text" \in DOMAIN block

\* hasattr(block, "text") and block.text
HasText(block) == "text" \in DOMAIN block /\ block.text # ""

\* for block in content: if hasattr(block, "text") and block.text: return
\* block.text; otherwise the script's placeholder
RECURSIVE ExtractFrom(_, _, _)
ExtractFrom(content, i, placeholder) ==
    IF i > Len(content) THEN placeholder
    ELSE IF HasText(content[i]) THEN content[i].text
    ELSE ExtractFrom(content, i + 1, placeholder)

\* seeded fault: every script falls back to the empty string
PlaceholderEmpty == ""

\* the placeholder of each script when no block has text
Placeholder == IF variant = "youtube" THEN "" ELSE "No text response found"

\* seeded fault: the scan does not stop at the first block with text
RECURSIVE ExtractLastFrom(_, _, _)
ExtractLastFrom(content, i, placeholder) ==
    IF i = 0 THEN placeholder
    ELSE IF "text" \in DOMAIN content[i] /\ content[i].text # "" THEN content[i].text
    ELSE ExtractLastFrom(content, i - 1, placeholder)

ExtractLastText(r) ==
    ExtractLastFrom(r.content, Len(r.content),
                    IF variant = "youtube" THEN "" ELSE "No text response found")

ExtractFinalText(r) == ExtractFrom(r.content, 1, Placeholder)

UserTurn(text) == [role |-> "user", content |-> text]
AssistantTurn(content) == [role |-> "assistant", content |-> content]
\* seeded fault: every result is tagged with the first request's identifier
ToolResultTurnFirstId(block, out) ==
    [role |-> "user",
     content |-> <<[type |-> "tool_result", tool_use_id |-> tool_use_blocks[1].id,
                    content |-> out]>>]

ToolResultTurn(block, out) ==
    [role |-> "user",
     content |-> <<[type |-> "tool_result", tool_use_id |-> block.id, content |-> out]>>]

\* seeded fault: the follow-up requests are sent without the tool menu
ModelRequestWithoutMenu(msgs) ==
    [messages |-> msgs, tools |-> <<>>, system |-> SystemPrompt]

\* the arguments of one messages.create call
ModelRequest(msgs) ==
    [messages |-> msgs, tools |-> anthropic_tools, system |-> SystemPrompt]

(***************************************************************************)
(* The state after construction: nothing has run yet.                      *)
(***************************************************************************)
KeyValues == {Unset, "", "sk"}
PathValues == {Unset, "build/index.js"}

\* the environments a script is started in: the variables it reads vary
Environments(v) ==
    {e \in [EnvNames -> KeyValues \cup PathValues] :
        /\ e["ANTHROPIC_API_KEY"] \in KeyValues
        /\ e["YOUTUBE_API_KEY"] \in (IF v = "youtube" THEN KeyValues ELSE {Unset})
        /\ e["TAVILY_API_KEY"] \in (IF v = "tavily" THEN KeyValues ELSE {Unset})
        /\ e["OPENNUTRITION_MCP_PATH"] \in (IF v = "nutrition" THEN PathValues ELSE {Unset})
        /\ e["NODE_ENV"] = Unset /\ e["LOG_LEVEL"] = Unset /\ e["SILENT"] = Unset}

Init ==
    /\ variant \in Variants
    /\ environ \in Environments(variant)
    /\ pathExists \in (IF Truthy(environ["OPENNUTRITION_MCP_PATH"]) THEN BOOLEAN ELSE {FALSE})
    /\ pc = "idle"
    /\ user_message = None
    /\ server_params = NoServerParams
    /\ connOpen = FALSE
    /\ launched = 0 /\ acquired = 0 /\ released = 0
    /\ tools_response = <<>>
    /\ anthropic_tools = <<>>
    /\ messages = <<>>
    /\ response = NoResponse
    /\ final_response = NoResponse
    /\ tool_use_blocks = <<>>
    /\ blockIdx = 0
    /\ received = <<>>
    /\ modelReqs = <<>>
    /\ calls = <<>>
    /\ toolDone = 0
    /\ nextId = 1
    /\ result = None
    /\ error = None
    /\ stdin = <<>> /\ lineNo = 0 /\ sessions = <<>> /\ cliPc = None

envVars == <<variant, environ, pathExists>>
cliVars == <<stdin, lineNo, sessions, cliPc>>
connVars == <<connOpen, launched, acquired, released>>
menuVars == <<tools_response, anthropic_tools>>
loopVars == <<messages, response, final_response, tool_use_blocks, blockIdx>>
histVars == <<received, modelReqs, calls, toolDone, nextId>>

(***************************************************************************)
(* Steps shared by the handlers.                                           *)
(***************************************************************************)
\* seeded fault: the exception leaves run() without the scope's exit
RaiseWithoutExit(err) ==
    /\ pc' = "failed"
    /\ error' = err

\* an exception raised inside the `async with` blocks: the scope's exit runs
\* before the exception leaves run()
RaiseInScope(err) ==
    /\ pc' = "exiting"
    /\ error' = err

\* messages.create(messages=msgs, tools=anthropic_tools[, system=...])
RequestModelTurn(msgs) ==
    /\ modelReqs' = Append(modelReqs, ModelRequest(msgs))
    /\ pc' = "awaitModel"

\* tool_name = block.name; tool_input = block.input (id: the block asked for)
CallArgs(block) == [name |-> block.name, input |-> block.input, id |-> block.id]

\* session.call_tool(tool_name, tool_input)
IssueCallTool(block) ==
    /\ calls' = Append(calls, CallArgs(block))
    /\ pc' = "awaitTool"

\* return final_text, which leaves the `async with` blocks
ReturnText(text) ==
    /\ result' = text
    /\ pc' = "exiting"

(***************************************************************************)
(* run(): entry checks and launch configuration.                           *)
(***************************************************************************)
Run(q) ==
    /\ pc = "idle"
    /\ user_message' = q
    /\ IF ConfigError # None
       THEN /\ pc' = "failed"
            /\ error' = ConfigError
            /\ UNCHANGED server_params
       ELSE /\ pc' = "connecting"
            /\ server_params' = CreateServerParams
            /\ UNCHANGED error
    /\ UNCHANGED <<envVars, cliVars, connVars, menuVars, loopVars, histVars, result>>

\* seeded fault: a later run is served by the subprocess of an earlier one
ConnectReusing ==
    /\ pc = "connecting"
    /\ launched' = IF launched > 0 THEN launched ELSE launched + 1
    /\ acquired' = acquired + 1
    /\ connOpen' = TRUE
    /\ pc' = "initializing"
    /\ UNCHANGED <<envVars, cliVars, user_message, server_params, released, menuVars,
                   loopVars, histVars, result, error>>

\* async with stdio_client(server_params) ..., ClientSession(read, write):
\* the subprocess is launched and session.initialize() is awaited
Connect ==
    /\ pc = "connecting"
    /\ launched' = launched + 1
    /\ acquired' = acquired + 1
    /\ connOpen' = TRUE
    /\ pc' = "initializing"
    /\ UNCHANGED <<envVars, cliVars, user_message, server_params, released, menuVars,
                   loopVars, histVars, result, error>>

\* the subprocess cannot be started (missing binary or path)
ConnectRaises ==
    /\ pc = "connecting"
    /\ pc' = "failed"
    /\ error' = "OSError"
    /\ UNCHANGED <<envVars, cliVars, user_message, server_params, connVars, menuVars,
                   loopVars, histVars, result>>

InitializeReturns ==
    /\ pc = "initializing"
    /\ pc' = "listing"
    /\ UNCHANGED <<envVars, cliVars, user_message, server_params, connVars, menuVars,
                   loopVars, histVars, result, error>>

InitializeRaises ==
    /\ pc = "initializing"
    /\ RaiseInScope("McpError")
    /\ UNCHANGED <<envVars, cliVars, user_message, server_params, connVars, menuVars,
                   loopVars, histVars, result>>

\* list_tools() returned: build the menu, start the transcript, ask the model
ListToolsReturns(tl) ==
    /\ pc = "listing"
    /\ tools_response' = tl
    /\ anthropic_tools' = ConvertTools(tl)
    /\ messages' = <<UserTurn(user_message)>>
    /\ modelReqs' = Append(modelReqs,
            [messages |-> messages', tools |-> anthropic_tools', system |-> SystemPrompt])
    /\ pc' = "awaitModel"
    /\ UNCHANGED <<envVars, cliVars, user_message, server_params, connVars, response,
                   final_response, tool_use_blocks, blockIdx, received, calls,
                   toolDone, nextId, result, error>>

ListToolsRaises ==
    /\ pc = "listing"
    /\ RaiseInScope("McpError")
    /\ UNCHANGED <<envVars, cliVars, user_message, server_params, connVars, menuVars,
                   loopVars, histVars, result>>

(***************************************************************************)
(* The code that runs when messages.create returns.                        *)
(***************************************************************************)
\* seeded fault: the request blocks of a response are dispatched together
OnResponseLoopGathered(r) ==
    /\ response' = r
    /\ UNCHANGED final_response
    /\ IF WantsTool(r)
       THEN /\ messages' = Append(messages, AssistantTurn(r.content))
            /\ tool_use_blocks' = ToolUseBlocksOf(r.content)
            /\ IF Len(tool_use_blocks') = 0
               THEN /\ blockIdx' = 0
                    /\ RequestModelTurn(messages')
                    /\ UNCHANGED calls
               ELSE /\ blockIdx' = 1
                    /\ calls' = calls \o [k \in 1..Len(tool_use_blocks') |->
                                            CallArgs(tool_use_blocks'[k])]
                    /\ pc' = "awaitTool"
                    /\ UNCHANGED modelReqs
            /\ UNCHANGED <<result, error>>
       ELSE /\ ReturnText(ExtractFinalText(r))
            /\ UNCHANGED <<messages, tool_use_blocks, blockIdx, modelReqs, calls, error>>

\* seeded fault: the final response is appended before its text is returned
OnResponseLoopAppendsFinal(r) ==
    /\ response' = r
    /\ UNCHANGED final_response
    /\ IF WantsTool(r)
       THEN /\ messages' = Append(messages, AssistantTurn(r.content))
            /\ tool_use_blocks' = ToolUseBlocksOf(r.content)
            /\ IF Len(tool_use_blocks') = 0
               THEN /\ blockIdx' = 0
                    /\ RequestModelTurn(messages')
                    /\ UNCHANGED calls
               ELSE /\ blockIdx' = 1
                    /\ IssueCallTool(tool_use_blocks'[1])
                    /\ UNCHANGED modelReqs
            /\ UNCHANGED <<result, error>>
       ELSE /\ messages' = Append(messages, AssistantTurn(r.content))
            /\ ReturnText(ExtractFinalText(r))
            /\ UNCHANGED <<tool_use_blocks, blockIdx, modelReqs, calls, error>>

\* tavily, nutrition: `while response.stop_reason == "tool_use"`, every
\* request block of the response is dispatched
OnResponseLoop(r) ==
    /\ response' = r
    /\ UNCHANGED final_response
    /\ IF WantsTool(r)
       THEN /\ messages' = Append(messages, AssistantTurn(r.content))
            /\ tool_use_blocks' = ToolUseBlocksOf(r.content)
            /\ IF Len(tool_use_blocks') = 0
               THEN /\ blockIdx' = 0
                    /\ RequestModelTurn(messages')
                    /\ UNCHANGED calls
               ELSE /\ blockIdx' = 1
                    /\ IssueCallTool(tool_use_blocks'[1])
                    /\ UNCHANGED modelReqs
            /\ UNCHANGED <<result, error>>
       ELSE /\ ReturnText(ExtractFinalText(r))
            /\ UNCHANGED <<messages, tool_use_blocks, blockIdx, modelReqs, calls, error>>

\* youtube: `while True`, only the first request block (next(...)) is
\* dispatched; next() on a response without one raises
OnResponseYouTube(r) ==
    /\ response' = r
    /\ UNCHANGED final_response
    /\ IF WantsTool(r)
       THEN IF Len(ToolUseBlocksOf(r.content)) = 0
            THEN /\ RaiseInScope("RuntimeError")
                 /\ UNCHANGED <<messages, tool_use_blocks, blockIdx, modelReqs,
                                calls, result>>
            ELSE /\ tool_use_blocks' = <<ToolUseBlocksOf(r.content)[1]>>
                 /\ blockIdx' = 1
                 /\ messages' = Append(messages, AssistantTurn(r.content))
                 /\ IssueCallTool(tool_use_blocks'[1])
                 /\ UNCHANGED <<modelReqs, result, error>>
       ELSE /\ ReturnText(ExtractFinalText(r))
            /\ UNCHANGED <<messages, tool_use_blocks, blockIdx, modelReqs, calls, error>>

\* websearch, first response: `if response.stop_reason == "tool_use"`; the
\* tool is called before anything is appended
OnResponseWebFirst(r) ==
    /\ response' = r
    /\ UNCHANGED <<final_response, messages>>
    /\ IF WantsTool(r)
       THEN IF Len(ToolUseBlocksOf(r.content)) = 0
            THEN /\ RaiseInScope("RuntimeError")
                 /\ UNCHANGED <<tool_use_blocks, blockIdx, modelReqs, calls, result>>
            ELSE /\ tool_use_blocks' = <<ToolUseBlocksOf(r.content)[1]>>
                 /\ blockIdx' = 1
                 /\ IssueCallTool(tool_use_blocks'[1])
                 /\ UNCHANGED <<modelReqs, result, error>>
       ELSE /\ ReturnText(ExtractFinalText(r))
            /\ UNCHANGED <<tool_use_blocks, blockIdx, modelReqs, calls, error>>

\* seeded fault: a tool requested by the second response is dispatched too
OnResponseWebFinalDispatching(r) ==
    /\ final_response' = r
    /\ IF WantsTool(r) /\ Len(ToolUseBlocksOf(r.content)) > 0
       THEN /\ tool_use_blocks' = <<ToolUseBlocksOf(r.content)[1]>>
            /\ blockIdx' = 1
            /\ IssueCallTool(tool_use_blocks'[1])
            /\ UNCHANGED <<response, messages, modelReqs, result, error>>
       ELSE /\ ReturnText(ExtractFinalText(r))
            /\ UNCHANGED <<response, messages, tool_use_blocks, blockIdx,
                           modelReqs, calls, error>>

\* websearch, second response: its text is returned whatever its stop reason
OnResponseWebFinal(r) ==
    /\ final_response' = r
    /\ ReturnText(ExtractFinalText(r))
    /\ UNCHANGED <<response, messages, tool_use_blocks, blockIdx, modelReqs,
                   calls, error>>

\* the response makes run() ask for another model turn
Continues(r) ==
    CASE variant \in LoopingVariants -> WantsTool(r)
      [] variant = "youtube" -> WantsTool(r) /\ Len(ToolUseBlocksOf(r.content)) > 0
      [] OTHER -> Len(received) = 0 /\ WantsTool(r) /\ Len(ToolUseBlocksOf(r.content)) > 0

ModelResponds(r) ==
    /\ pc = "awaitModel"
    /\ Truthy(AnthropicKey)
    /\ Continues(r) => Len(modelReqs) < MaxModelTurns
    /\ received' = Append(received, r)
    /\ nextId' = nextId + Len(r.content)
    /\ CASE variant \in LoopingVariants -> OnResponseLoop(r)
         [] variant = "youtube" -> OnResponseYouTube(r)
         [] OTHER -> IF Len(received) = 0 THEN OnResponseWebFirst(r)
                     ELSE OnResponseWebFinal(r)
    /\ UNCHANGED <<envVars, cliVars, user_message, server_params, connVars, menuVars, toolDone>>

\* messages.create raises: always without a credential, possibly otherwise
ModelRaises ==
    /\ pc = "awaitModel"
    /\ RaiseInScope("APIError")
    /\ UNCHANGED <<envVars, cliVars, user_message, server_params, connVars, menuVars,
                   loopVars, histVars, result>>

(***************************************************************************)
(* The code that runs when session.call_tool returns.                      *)
(***************************************************************************)
\* tavily, nutrition: append the result, dispatch the next block if any
OnToolResultLoop(out) ==
    /\ messages' = Append(messages, ToolResultTurn(tool_use_blocks[blockIdx], out))
    /\ IF blockIdx < Len(tool_use_blocks)
       THEN /\ blockIdx' = blockIdx + 1
            /\ IssueCallTool(tool_use_blocks[blockIdx'])
            /\ UNCHANGED modelReqs
       ELSE /\ RequestModelTurn(messages')
            /\ UNCHANGED <<blockIdx, calls>>

\* seeded fault: the transcript is rebuilt from the user turn and the result
OnToolResultYouTubeRebuilt(out) ==
    /\ messages' = <<messages[1], ToolResultTurn(tool_use_blocks[blockIdx], out)>>
    /\ RequestModelTurn(messages')
    /\ UNCHANGED <<blockIdx, calls>>

\* youtube: _handle_tool_use appends the result, the loop continues
OnToolResultYouTube(out) ==
    /\ messages' = Append(messages, ToolResultTurn(tool_use_blocks[blockIdx], out))
    /\ RequestModelTurn(messages')
    /\ UNCHANGED <<blockIdx, calls>>

\* seeded fault: the assistant turn is not appended before the result
OnToolResultWebNoAssistant(out) ==
    /\ messages' = Append(messages, ToolResultTurn(tool_use_blocks[blockIdx], out))
    /\ RequestModelTurn(messages')
    /\ UNCHANGED <<blockIdx, calls>>

\* websearch: append the assistant turn, then the result, ask once more
OnToolResultWeb(out) ==
    /\ messages' = Append(Append(messages, AssistantTurn(response.content)),
                          ToolResultTurn(tool_use_blocks[blockIdx], out))
    /\ RequestModelTurn(messages')
    /\ UNCHANGED <<blockIdx, calls>>

ToolReturns(out) ==
    /\ pc = "awaitTool"
    /\ toolDone' = toolDone + 1
    /\ CASE variant \in LoopingVariants -> OnToolResultLoop(out)
         [] variant = "youtube" -> OnToolResultYouTube(out)
         [] OTHER -> OnToolResultWeb(out)
    /\ UNCHANGED <<envVars, cliVars, user_message, server_params, connVars, menuVars,
                   response, final_response, tool_use_blocks, received, nextId,
                   result, error>>

ToolRaises ==
    /\ pc = "awaitTool"
    /\ RaiseInScope("McpError")
    /\ UNCHANGED <<envVars, cliVars, user_message, server_params, connVars, menuVars,
                   loopVars, histVars, result>>

(***************************************************************************)
(* Leaving the `async with` blocks: the connection is shut down, then the  *)
(* value or the exception leaves run().                                    *)
(***************************************************************************)
\* seeded fault: the scope's exit suppresses the exception and run() returns
ExitScopeSuppresses ==
    /\ pc = "exiting"
    /\ connOpen' = FALSE
    /\ released' = released + 1
    /\ pc' = "done"
    /\ UNCHANGED <<envVars, cliVars, user_message, server_params, launched, acquired,
                   menuVars, loopVars, histVars, result, error>>

ExitScope ==
    /\ pc = "exiting"
    /\ connOpen' = FALSE
    /\ released' = released + 1
    /\ pc' = IF error = None THEN "done" ELSE "failed"
    /\ UNCHANGED <<envVars, cliVars, user_message, server_params, launched, acquired,
                   menuVars, loopVars, histVars, result, error>>

Next ==
    \/ \E q \in Queries : Run(q)
    \/ Connect
    \/ ConnectRaises
    \/ InitializeReturns
    \/ InitializeRaises
    \/ \E tl \in MainToolLists : ListToolsReturns(tl)
    \/ ListToolsRaises
    \/ \E stop \in StopReasons, shape \in Shapes :
          ModelResponds([stop_reason |-> stop, content |-> BuildContent(shape, nextId)])
    \/ ModelRaises
    \/ \E out \in ToolOutputs : ToolReturns(out)
    \/ ToolRaises
    \/ ExitScope

Spec == Init /\ [][Next]_vars

\* sessions in which the model answers every turn without asking for a
\* tool, over every user message and every tool list
NextDirect ==
    \/ \E q \in AllQueries : Run(q)
    \/ Connect
    \/ ConnectRaises
    \/ InitializeReturns
    \/ InitializeRaises
    \/ \E tl \in ToolLists : ListToolsReturns(tl)
    \/ ListToolsRaises
    \/ \E shape \in Shapes :
          ModelResponds([stop_reason |-> "end_turn", content |-> BuildContent(shape, nextId)])
    \/ ModelRaises
    \/ ExitScope

SpecDirect == Init /\ [][NextDirect]_vars

(***************************************************************************)
(* Vocabulary of the properties.                                           *)
(***************************************************************************)
Terminal == {"done", "failed"}
Returning == {"exiting", "done"}

LastResponse == IF Len(received) = 0 THEN NoResponse ELSE received[Len(received)]

IsFinal(r) == r.stop_reason # None /\ r.stop_reason # "tool_use"

\* positions of the request blocks, text blocks and non-empty text blocks
RequestIdx(content) == {i \in 1..Len(content) : content[i].type = "tool_use"}
TextIdx(content) == {i \in 1..Len(content) : content[i].type = "text"}
NonEmptyTextIdx(content) == {i \in TextIdx(content) : content[i].text # ""}
Least(S) == CHOOSE x \in S : \A y \in S : x <= y

\* positions of the tool-result turns: every user turn but the first
ResultIdx == {j \in 2..Len(messages) : messages[j].role = "user"}
AssistantIdx == {i \in 1..Len(messages) : messages[i].role = "assistant"}
ResultTurns == IF Len(messages) = 0 THEN <<>>
               ELSE SelectSeq(Tail(messages), LAMBDA m : m.role = "user")

(***************************************************************************)
(* C1: whenever a model turn is requested, every tool-invocation-request   *)
(* block of every assistant turn on the transcript is followed by exactly  *)
(* one tool-result turn carrying its identifier, in every variant and also *)
(* when one response holds several request blocks.                         *)
(***************************************************************************)
ResultsFor(i, id) ==
    {j \in (i + 1)..Len(messages) :
        /\ messages[j].role = "user"
        /\ messages[j].content[1].tool_use_id = id}

C1_EveryRequestAnswered ==
    pc = "awaitModel" =>
        \A i \in AssistantIdx : \A k \in RequestIdx(messages[i].content) :
            Cardinality(ResultsFor(i, messages[i].content[k].id)) = 1

(***************************************************************************)
(* C2: at every point of a run the number of tool-result turns on the      *)
(* transcript equals the number of call_tool round-trips that completed,   *)
(* and the k-th result turn carries the identifier of the request block    *)
(* the k-th call_tool was issued for.                                      *)
(***************************************************************************)
C2_ResultsMatchProcessed ==
    /\ Len(ResultTurns) = toolDone
    /\ toolDone <= Len(calls)
    /\ \A k \in 1..Len(ResultTurns) :
          /\ Len(ResultTurns[k].content) = 1
          /\ ResultTurns[k].content[1].type = "tool_result"
          /\ ResultTurns[k].content[1].tool_use_id = calls[k].id

\* two request blocks of one response were both processed
C2_Witness_TwoResults ==
    /\ variant \in LoopingVariants
    /\ Len(tool_use_blocks) = 2
    /\ toolDone = 2
    /\ Len(ResultTurns) = 2

(***************************************************************************)
(* C3: a run that acquires the subprocess connection releases it exactly   *)
(* once, on normal return, on a tool error and on a model error: it is     *)
(* never released before the run leaves the scope, never left open after   *)
(* the run ended, never released twice.                                    *)
(***************************************************************************)
C3_ReleasedExactlyOnce ==
    /\ acquired <= 1
    /\ released <= acquired
    /\ pc \in Terminal => (released = acquired /\ ~connOpen)
    /\ pc \notin Terminal => (released = 0 /\ (connOpen <=> acquired = 1))

\* a run that failed on a call_tool error, its connection released once
C3_Witness_ToolErrorReleased ==
    /\ pc = "failed"
    /\ error = "McpError"
    /\ Len(calls) = toolDone + 1
    /\ acquired = 1
    /\ released = 1

(***************************************************************************)
(* C4: once a model turn returned a stop reason other than tool-use, the   *)
(* run is returning the extracted text: no further model turn is requested *)
(* and no tool is called.                                                  *)
(***************************************************************************)
C4_NoTurnAfterFinalAnswer ==
    [][IsFinal(LastResponse) =>
          /\ pc \in Returning
          /\ result # None
          /\ modelReqs' = modelReqs
          /\ calls' = calls
          /\ received' = received
          /\ pc' \in Returning]_vars

\* a final answer that came after a tool round-trip, and the run returned
C4_Witness_ReturnedAfterFinal ==
    /\ pc = "done"
    /\ Len(received) = 2
    /\ IsFinal(LastResponse)
    /\ toolDone >= 1

(***************************************************************************)
(* C5: in every variant, when a required credential is missing (the        *)
(* chat-API credential, or the provider credential of the video-search and *)
(* Tavily variants), no subprocess is ever launched: the run fails first.  *)
(***************************************************************************)
MissingCredential ==
    \/ ~Truthy(environ["ANTHROPIC_API_KEY"])
    \/ variant = "youtube" /\ ~Truthy(environ["YOUTUBE_API_KEY"])
    \/ variant = "tavily" /\ ~Truthy(environ["TAVILY_API_KEY"])

C5_MissingCredentialNoLaunch ==
    MissingCredential => launched = 0

(***************************************************************************)
(* C6: in every variant a run returns a value only when the last model     *)
(* response it received has a stop reason other than tool-use.             *)
(***************************************************************************)
C6_DoneOnlyAfterNonToolStop ==
    (pc = "done" /\ result # None) => IsFinal(LastResponse)

(***************************************************************************)
(* C7, as amended: when the first model response has a non-tool stop       *)
(* reason and holds a text block with non-empty text, the run returns the  *)
(* text of the first such block after exactly one model turn and no tool   *)
(* call, and the transcript holds only the initial user turn.  This is for *)
(* every user message and every tool menu, the empty one included.         *)
(***************************************************************************)
FirstText(content) == content[Least(NonEmptyTextIdx(content))].text

OnlyUserTurn ==
    /\ Len(messages) = 1
    /\ messages[1].role = "user"
    /\ messages[1].content = user_message

C7_DirectAnswer ==
    (/\ Len(received) >= 1
     /\ IsFinal(received[1])
     /\ NonEmptyTextIdx(received[1].content) # {})
    => /\ pc \in Returning
       /\ result = FirstText(received[1].content)
       /\ Len(received) = 1
       /\ Len(modelReqs) = 1
       /\ Len(calls) = 0
       /\ toolDone = 0
       /\ OnlyUserTurn

\* the scenario of the spec with the empty tool menu, and one with a
\* leading empty text block
C7_Witness_PongEmptyMenu ==
    /\ pc = "done"
    /\ user_message = "ping"
    /\ anthropic_tools = <<>>
    /\ Len(received) = 1
    /\ received[1] = [stop_reason |-> "end_turn", content |-> <<TextBlock("pong")>>]
    /\ result = "pong"

\* C7 as stated: any text block counts, and the run returns the text of a
\* text block of the response
C7_Original_AnyTextBlock ==
    (/\ pc = "done"
     /\ Len(received) >= 1
     /\ IsFinal(received[1])
     /\ TextIdx(received[1].content) # {})
    => /\ \E i \in TextIdx(received[1].content) : result = received[1].content[i].text
       /\ Len(modelReqs) = 1
       /\ Len(calls) = 0
       /\ OnlyUserTurn

(***************************************************************************)
(* C8, as amended: when the first model response asks for exactly one tool *)
(* and the second is a final answer holding non-empty text, the run issues *)
(* exactly one call_tool with the requested name and input, returns the    *)
(* first non-empty text of the second response, and the transcript holds   *)
(* exactly 3 turns: user, assistant with the request, user with the        *)
(* result; the final response is not appended.                             *)
(***************************************************************************)
OneToolThenAnswer ==
    /\ Len(received) >= 2
    /\ received[1].stop_reason = "tool_use"
    /\ Cardinality(RequestIdx(received[1].content)) = 1
    /\ IsFinal(received[2])
    /\ NonEmptyTextIdx(received[2].content) # {}

TheRequest == received[1].content[Least(RequestIdx(received[1].content))]

OneCallAsRequested ==
    /\ Len(calls) = 1
    /\ toolDone = 1
    /\ calls[1].name = TheRequest.name
    /\ calls[1].input = TheRequest.input
    /\ Len(modelReqs) = 2
    /\ Len(received) = 2

ThreeTurns ==
    /\ Len(messages) = 3
    /\ messages[1].role = "user"
    /\ messages[1].content = user_message
    /\ messages[2].role = "assistant"
    /\ messages[2].content = received[1].content
    /\ messages[3].role = "user"
    /\ Len(messages[3].content) = 1
    /\ messages[3].content[1].type = "tool_result"
    /\ messages[3].content[1].tool_use_id = TheRequest.id

C8_OneToolRoundTrip ==
    OneToolThenAnswer =>
        /\ pc \in Returning
        /\ result = FirstText(received[2].content)
        /\ OneCallAsRequested
        /\ ThreeTurns

\* the scenario of the spec: one request, then the answer "42"
C8_Witness_LookupThen42 ==
    /\ pc = "done"
    /\ OneToolThenAnswer
    /\ Len(received[1].content) = 1
    /\ received[2].content = <<TextBlock(""), TextBlock("42")>>
    /\ result = "42"

\* C8 as stated: the transcript holds exactly 4 turns
C8_Original_FourTurns ==
    (pc = "done" /\ OneToolThenAnswer) =>
        /\ result = FirstText(received[2].content)
        /\ OneCallAsRequested
        /\ Len(messages) = 4

(***************************************************************************)
(* C9, as amended: on a final (non-tool) response the run returns the text *)
(* of the first text block whose text is not empty, in content order; when *)
(* no block has non-empty text it returns the empty string in the          *)
(* video-search variant and "No text response found" in the others.        *)
(***************************************************************************)
C9_FirstNonEmptyText ==
    (result # None /\ IsFinal(LastResponse)) =>
        result = IF NonEmptyTextIdx(LastResponse.content) # {}
                 THEN FirstText(LastResponse.content)
                 ELSE IF variant = "youtube" THEN "" ELSE "No text response found"

\* a final response whose first text block is empty and a later one is not
C9_Witness_SkipsEmptyText ==
    /\ pc = "done"
    /\ IsFinal(LastResponse)
    /\ Len(LastResponse.content) = 2
    /\ LastResponse.content[1] = TextBlock("")
    /\ LastResponse.content[2].type = "text"
    /\ LastResponse.content[2].text # ""
    /\ result = LastResponse.content[2].text

\* C9 as stated: the first text block's text, empty or not, and the empty
\* string when there is no text block
C9_Original_FirstTextBlock ==
    (result # None /\ IsFinal(LastResponse)) =>
        result = IF TextIdx(LastResponse.content) # {}
                 THEN LastResponse.content[Least(TextIdx(LastResponse.content))].text
                 ELSE ""

(***************************************************************************)
(* C10: the tool menu sent to the model is a field-for-field copy of the   *)
(* discovered tool list: same length, same order, entry i holding exactly  *)
(* the name, description and input schema of discovered tool i.            *)
(***************************************************************************)
CopyOf(menu, tools) ==
    /\ Len(menu) = Len(tools)
    /\ \A i \in 1..Len(tools) :
          /\ DOMAIN menu[i] = {"name", "description", "input_schema"}
          /\ menu[i].name = tools[i].name
          /\ menu[i].description = tools[i].description
          /\ menu[i].input_schema = tools[i].inputSchema

C10_MenuIsCopy ==
    /\ CopyOf(anthropic_tools, tools_response)
    /\ \A k \in 1..Len(modelReqs) : CopyOf(modelReqs[k].tools, tools_response)

\* a model turn was requested with a menu of two different tools
C10_Witness_TwoToolMenu ==
    /\ Len(modelReqs) >= 1
    /\ Len(tools_response) = 2
    /\ tools_response[1].description # tools_response[2].description
    /\ tools_response[1].inputSchema # tools_response[2].inputSchema
    /\ Len(modelReqs[1].tools) = 2

(***************************************************************************)
(* C11: in the video-search, Tavily and nutrition variants a tool-use      *)
(* response is appended to the transcript once, before any call_tool is    *)
(* issued for it; its request blocks are dispatched one at a time in the   *)
(* order they appear, the result of each appended as its own user turn     *)
(* before the next call_tool is issued; and a model turn is requested only *)
(* after the results of all its request blocks are appended.               *)
(***************************************************************************)
\* the request blocks of the assistant turn at position i, in order
RequestsOf(i) == SelectSeq(messages[i].content, LAMBDA b : b.type = "tool_use")

\* the turns that follow the assistant turn at position i up to the next
\* assistant turn
NextAssistant(i) ==
    IF \E j \in AssistantIdx : j > i
    THEN Least({j \in AssistantIdx : j > i})
    ELSE Len(messages) + 1
Following(i) == SubSeq(messages, i + 1, NextAssistant(i) - 1)
LastAssistant == CHOOSE i \in AssistantIdx : \A j \in AssistantIdx : j <= i

ToolUseResponses == SelectSeq(received, LAMBDA r : r.stop_reason = "tool_use")

C11_DispatchInOrder ==
    (variant # "websearch" /\ error = None) =>
        \* appended exactly once, each response in the order received
        /\ pc \in {"awaitTool", "awaitModel"} =>
              /\ Cardinality(AssistantIdx) = Len(ToolUseResponses)
              /\ AssistantIdx # {} =>
                    messages[LastAssistant].content
                        = ToolUseResponses[Len(ToolUseResponses)].content
        \* results follow their assistant turn in the order of its requests
        /\ \A i \in AssistantIdx :
              /\ Len(Following(i)) <= Len(RequestsOf(i))
              /\ \A k \in 1..Len(Following(i)) :
                    /\ Following(i)[k].role = "user"
                    /\ Len(Following(i)[k].content) = 1
                    /\ Following(i)[k].content[1].tool_use_id = RequestsOf(i)[k].id
              \* a model turn only after the results of all the requests
              /\ (i # LastAssistant \/ pc = "awaitModel") =>
                    Len(Following(i)) = Len(RequestsOf(i))
        \* the call in flight is for the first request not yet answered
        /\ pc = "awaitTool" =>
              /\ AssistantIdx # {}
              /\ Len(calls) = toolDone + 1
              /\ Len(Following(LastAssistant)) < Len(RequestsOf(LastAssistant))
              /\ calls[Len(calls)].id
                    = RequestsOf(LastAssistant)[Len(Following(LastAssistant)) + 1].id

\* the same statement for the two variants that loop over the blocks
C11_Looping_DispatchInOrder ==
    variant \in LoopingVariants => C11_DispatchInOrder

(***************************************************************************)
(* C12: the transcript of a run starts as exactly one user turn holding    *)
(* the raw user message, and from then on it only grows at its end: every  *)
(* step leaves the turns it had in place and unchanged, every model turn   *)
(* is requested with the transcript as it stands, and the transcript of    *)
(* any model turn is a prefix of the transcript of every later one.        *)
(***************************************************************************)
IsPrefix(a, b) ==
    /\ Len(a) <= Len(b)
    /\ \A i \in 1..Len(a) : a[i].role = b[i].role /\ a[i].content = b[i].content

C12_TranscriptAppendOnly ==
    [][/\ (Len(messages) = 0 /\ Len(messages') > 0) =>
              /\ Len(messages') = 1
              /\ messages'[1].role = "user"
              /\ messages'[1].content = user_message'
       /\ Len(messages) > 0 => IsPrefix(messages, messages')
       /\ Len(modelReqs') > Len(modelReqs) =>
              /\ Len(modelReqs') = Len(modelReqs) + 1
              /\ modelReqs'[Len(modelReqs')].messages = messages'
       /\ (Len(modelReqs) = 0 /\ Len(modelReqs') > 0) =>
              Len(modelReqs'[1].messages) = 1
       /\ \A k \in 1..Len(modelReqs') : \A l \in k..Len(modelReqs') :
              IsPrefix(modelReqs'[k].messages, modelReqs'[l].messages)
      ]_vars

\* a second model turn was requested with the assistant turn and two results
\* added behind the user turn of the first
C12_Witness_SecondTurnExtends ==
    /\ Len(modelReqs) = 2
    /\ Len(modelReqs[1].messages) = 1
    /\ Len(modelReqs[2].messages) = 4
    /\ modelReqs[2].messages[1].content = user_message

(***************************************************************************)
(* C13: every external failure is fatal to the run.  Once a call_tool, a   *)
(* model request or a handshake call has raised, the run issues no further *)
(* model turn and no further tool call and does not extend the transcript; *)
(* it only leaves the connection scope, and the error leaves run() in      *)
(* place of a returned value.                                              *)
(***************************************************************************)
C13_FailureIsFatal ==
    [][error # None =>
          /\ error' = error
          /\ modelReqs' = modelReqs
          /\ calls' = calls
          /\ toolDone' = toolDone
          /\ received' = received
          /\ messages' = messages
          /\ result = None /\ result' = None
          /\ pc = "exiting" /\ pc' = "failed"
      ]_vars

\* call_tool raised on the second request block of a response: one result
\* was appended, nothing after it, and the run failed
C13_Witness_SecondCallRaised ==
    /\ pc = "failed"
    /\ error = "McpError"
    /\ Len(calls) = 2
    /\ toolDone = 1
    /\ Len(messages) = 3
    /\ Len(modelReqs) = 1
    /\ result = None

\* the model request of the second turn raised
C13_Witness_ModelRaised ==
    /\ pc = "failed"
    /\ error = "APIError"
    /\ Len(modelReqs) = 2
    /\ Len(received) = 1

(***************************************************************************)
(* Runs in which every external call returns.  run() is one coroutine      *)
(* driven by asyncio.run: whenever the call it awaits has returned, the    *)
(* event loop resumes it, so a step that stays possible is taken (weak     *)
(* fairness).  The guard of ModelResponds makes the model give an answer   *)
(* that ends the run by turn MaxModelTurns at the latest.                  *)
(***************************************************************************)
\* the responses of these runs: any first block, then request blocks only
LiveShapes == {s \in Shapes : \A i \in 2..Len(s) : s[i] = "tool_use"}

NextLive ==
    \/ \E q \in Queries : Run(q)
    \/ Connect
    \/ InitializeReturns
    \/ \E tl \in MainToolLists : ListToolsReturns(tl)
    \/ \E stop \in StopReasons, shape \in LiveShapes :
          ModelResponds([stop_reason |-> stop, content |-> BuildContent(shape, nextId)])
    \/ \E out \in ToolOutputs : ToolReturns(out)
    \/ ExitScope

SpecLive == Init /\ [][NextLive]_vars /\ WF_vars(NextLive)

(***************************************************************************)
(* C14: when every external call returns and the model eventually answers  *)
(* with a non-tool stop reason, run() eventually reaches Done.  No turn    *)
(* count limits the loop of the Tavily and nutrition variants: after a     *)
(* tool-use response, whatever the number of turns so far, the run has not *)
(* returned and asks for another model turn, so Done is reached only by a  *)
(* response with a non-tool stop reason.                                   *)
(***************************************************************************)
Started == pc = "connecting" /\ Truthy(AnthropicKey)

\* the only run that ends without a non-tool answer: a tool-use response
\* without a request block in the variants that take the first one
NoRequestToTake ==
    /\ pc = "failed"
    /\ error = "RuntimeError"
    /\ ~IsFinal(LastResponse)

AskedAgain(n) ==
    /\ variant \in LoopingVariants
    /\ Len(received) = n
    /\ LastResponse.stop_reason = "tool_use"

NoTurnLimit ==
    (variant \in LoopingVariants /\ Len(received) > 0) =>
        /\ LastResponse.stop_reason = "tool_use" =>
              /\ pc \in {"awaitTool", "awaitModel"}
              /\ result = None
        /\ pc = "done" => IsFinal(LastResponse)

MaxRuns == 2

RunAgain ==
    /\ pc = "done"
    /\ launched < MaxRuns
    /\ pc' = "idle"
    /\ user_message' = None
    /\ server_params' = NoServerParams
    /\ tools_response' = <<>>
    /\ anthropic_tools' = IF variant = "youtube" THEN anthropic_tools ELSE <<>>
    /\ messages' = <<>>
    /\ response' = NoResponse
    /\ final_response' = NoResponse
    /\ tool_use_blocks' = <<>>
    /\ blockIdx' = 0
    /\ received' = <<>>
    /\ modelReqs' = <<>>
    /\ calls' = <<>>
    /\ toolDone' = 0
    /\ nextId' = 1
    /\ result' = None
    /\ UNCHANGED <<envVars, cliVars, connVars, error>>

\* the responses of these runs: at most one block
RunShapes == {s \in Shapes : Len(s) <= 1}

NextRuns ==
    \/ \E q \in Queries : Run(q)
    \/ Connect
    \/ ConnectRaises
    \/ InitializeReturns
    \/ InitializeRaises
    \/ \E tl \in MainToolLists : ListToolsReturns(tl)
    \/ ListToolsRaises
    \/ \E stop \in StopReasons, shape \in RunShapes :
          ModelResponds([stop_reason |-> stop, content |-> BuildContent(shape, nextId)])
    \/ ModelRaises
    \/ \E out \in ToolOutputs : ToolReturns(out)
    \/ ToolRaises
    \/ ExitScope
    \/ RunAgain

SpecRuns == Init /\ [][NextRuns]_vars

(***************************************************************************)
(* C15: the subprocess lives exactly as long as one run().  While a run    *)
(* waits for the handshake, list_tools, a model turn or call_tool its own  *)
(* connection is open; the connection is closed when run() has returned or *)
(* raised; each run that connects launches a new subprocess, and does so   *)
(* only when every earlier one was torn down; at most one is alive.        *)
(***************************************************************************)
Alive == launched - released

InScope == {"initializing", "listing", "awaitModel", "awaitTool", "exiting"}

C15_ScopedToRun ==
    /\ Alive \in {0, 1}
    /\ acquired = launched
    /\ connOpen <=> Alive = 1
    /\ pc \in InScope => connOpen
    /\ pc \notin InScope => ~connOpen

C15_FreshPerRun ==
    [][/\ (pc = "connecting" /\ pc' = "initializing") =>
              /\ Alive = 0
              /\ launched' = launched + 1
       /\ (pc \in {"listing", "awaitModel", "awaitTool"}
              /\ (modelReqs' # modelReqs \/ calls' # calls)) =>
              connOpen /\ connOpen'
       /\ pc' \in Terminal => Alive' = 0
      ]_vars

C15_SubprocessPerRun == []C15_ScopedToRun /\ C15_FreshPerRun

\* the second run waits for a tool on its own subprocess, the first is gone
C15_Witness_SecondRunInScope ==
    /\ launched = 2
    /\ released = 1
    /\ pc = "awaitTool"
    /\ connOpen

(***************************************************************************)
(* C16: within one run at most one external round-trip is outstanding at   *)
(* any time.  A model request or a tool call that was issued and has not   *)
(* returned is outstanding, and so is the handshake or the listing the run *)
(* waits for; a new round-trip is issued only by the step that takes the   *)
(* return of the previous one, also between the request blocks of one      *)
(* response.                                                               *)
(***************************************************************************)
OutstandingModel == Len(modelReqs) - Len(received)
OutstandingTool == Len(calls) - toolDone
OutstandingSetup == IF pc \in {"initializing", "listing"} THEN 1 ELSE 0

C16_OneRoundTripAtATime ==
    error = None =>
        /\ OutstandingModel \in {0, 1}
        /\ OutstandingTool \in {0, 1}
        /\ OutstandingModel + OutstandingTool + OutstandingSetup <= 1
        /\ pc = "awaitModel" <=> OutstandingModel = 1
        /\ pc = "awaitTool" <=> OutstandingTool = 1

\* the second request block of a response is being served: its call is the
\* only one outstanding, the first has returned
C16_Witness_SecondOfTwoCalls ==
    /\ variant \in LoopingVariants
    /\ Len(tool_use_blocks) = 2
    /\ pc = "awaitTool"
    /\ Len(calls) = 2
    /\ toolDone = 1
    /\ error = None

LocalPath == environ["OPENNUTRITION_MCP_PATH"]

C18_NonexistentPathFatal ==
    variant = "nutrition" =>
        /\ (Truthy(LocalPath) /\ ~pathExists) =>
              /\ launched = 0
              /\ pc \in {"idle", "failed"}
              /\ pc = "failed" => error = "FileNotFoundError"
        /\ (~Truthy(LocalPath) /\ pc # "idle") =>
              /\ error \notin {"FileNotFoundError", "ValueError"}
              /\ server_params.command = "npx"
              /\ launched = 0 => (pc = "connecting" \/ error = "OSError")
        /\ (Truthy(LocalPath) /\ pathExists /\ pc # "idle") =>
              /\ server_params.command = "node"
              /\ server_params.args = <<AbsPath(LocalPath)>>

\* the run was refused for a path that does not exist
C18_Witness_RefusedBeforeLaunch ==
    /\ variant = "nutrition"
    /\ Truthy(LocalPath) /\ ~pathExists
    /\ pc = "failed"
    /\ error = "FileNotFoundError"
    /\ launched = 0

\* a run without the path variable went through on the npx launch
C18_Witness_UnsetPathRuns ==
    /\ variant = "nutrition"
    /\ ~Truthy(LocalPath)
    /\ pc = "done"
    /\ launched = 1
    /\ server_params.command = "npx"

\* C18 as stated: unset or nonexistent, no subprocess is ever launched
C18_Original_MissingPathFatal ==
    (variant = "nutrition" /\ (~Truthy(LocalPath) \/ ~pathExists)) =>
        launched = 0

(***************************************************************************)
(* C19: when the response whose text run() returns holds no text block,    *)
(* or only empty text, run() raises nothing and asks for no further model  *)
(* turn: it returns the empty string in the video-search variant and the   *)
(* sentinel "No text response found" in the others, and the connection is  *)
(* released as on any normal return.                                       *)
(***************************************************************************)
\* the last response is the one run() takes its answer from
AnswerGiven ==
    /\ Len(received) > 0
    /\ \/ IsFinal(LastResponse)
       \/ variant = "websearch" /\ Len(received) = 2

C19_PlaceholderWhenNoText ==
    (AnswerGiven /\ NonEmptyTextIdx(LastResponse.content) = {}) =>
        /\ error = None
        /\ pc \in Returning
        /\ result = (IF variant = "youtube" THEN "" ELSE "No text response found")
        /\ Len(modelReqs) = Len(received)
        /\ pc = "exiting" => (connOpen /\ released = 0)
        /\ pc = "done" => (~connOpen /\ released = 1)

\* a final response of one empty text block gave the sentinel
C19_Witness_SentinelReturned ==
    /\ variant = "tavily"
    /\ pc = "done"
    /\ IsFinal(LastResponse)
    /\ Len(LastResponse.content) = 1
    /\ LastResponse.content[1].type = "text"
    /\ LastResponse.content[1].text = ""
    /\ result = "No text response found"
    /\ released = 1

\* a final response without any block gave the empty string
C19_Witness_EmptyStringReturned ==
    /\ variant = "youtube"
    /\ pc = "done"
    /\ IsFinal(LastResponse)
    /\ LastResponse.content = <<>>
    /\ result = ""

(***************************************************************************)
(* Launches from a process environment that already sets the logging       *)
(* variables: the entry checks and the start of the subprocess.            *)
(***************************************************************************)
InheritedLogValues ==
    [NODE_ENV |-> {Unset, "development"}, LOG_LEVEL |-> {Unset, "debug"},
     SILENT |-> {Unset, "0"}]

DevEnvironments(v) ==
    {[e EXCEPT !["NODE_ENV"] = a, !["LOG_LEVEL"] = b, !["SILENT"] = c] :
        e \in Environments(v),
        a \in InheritedLogValues["NODE_ENV"],
        b \in InheritedLogValues["LOG_LEVEL"],
        c \in InheritedLogValues["SILENT"]}

InitEnv ==
    /\ variant \in Variants
    /\ environ \in DevEnvironments(variant)
    /\ pathExists \in (IF Truthy(environ["OPENNUTRITION_MCP_PATH"]) THEN BOOLEAN ELSE {FALSE})
    /\ pc = "idle"
    /\ user_message = None
    /\ server_params = NoServerParams
    /\ connOpen = FALSE
    /\ launched = 0 /\ acquired = 0 /\ released = 0
    /\ tools_response = <<>>
    /\ anthropic_tools = <<>>
    /\ messages = <<>>
    /\ response = NoResponse
    /\ final_response = NoResponse
    /\ tool_use_blocks = <<>>
    /\ blockIdx = 0
    /\ received = <<>>
    /\ modelReqs = <<>>
    /\ calls = <<>>
    /\ toolDone = 0
    /\ nextId = 1
    /\ result = None
    /\ error = None
    /\ stdin = <<>> /\ lineNo = 0 /\ sessions = <<>> /\ cliPc = None

NextEnv ==
    \/ \E q \in Queries : Run(q)
    \/ Connect
    \/ ConnectRaises

SpecEnv == InitEnv /\ [][NextEnv]_vars

(***************************************************************************)
(* C20: in every variant the environment the subprocess is launched with   *)
(* is the inherited process environment with the overrides on top: every   *)
(* inherited variable that is not overridden is passed through unchanged,  *)
(* NODE_ENV, LOG_LEVEL and SILENT are always present with the production   *)
(* and silent values, also when the inherited environment sets them        *)
(* otherwise.                                                              *)
(***************************************************************************)
LoggingFlags == {"NODE_ENV", "LOG_LEVEL", "SILENT"}
FlagValue(n) ==
    CASE n = "NODE_ENV" -> "production"
      [] n = "LOG_LEVEL" -> "silent"
      [] OTHER -> "1"

C20_LaunchEnvInherits ==
    server_params.command # None =>
        \A n \in EnvNames :
            server_params.env[n] = (IF n \in LoggingFlags THEN FlagValue(n)
                                    ELSE environ[n])

\* the same statement for the three scripts that build env from os.environ
C20_Inheriting_LaunchEnv ==
    variant # "youtube" => C20_LaunchEnvInherits

\* a launch that overrode an inherited NODE_ENV and passed the rest through
C20_Inheriting_Witness ==
    /\ variant = "tavily"
    /\ launched = 1
    /\ environ["NODE_ENV"] = "development"
    /\ server_params.env["NODE_ENV"] = "production"
    /\ server_params.env["ANTHROPIC_API_KEY"] = "sk"

(***************************************************************************)
(* The command-line loop of the interactive scripts (Tavily, nutrition):   *)
(*     while True:                                                         *)
(*         user_input = input(...)                                         *)
(*         if user_input == "q": break                                     *)
(*         result = searcher.search(user_input)                            *)
(* search() runs one session with asyncio.run; nothing catches what it     *)
(* raises.  Standard input is a finite sequence of lines, at its end       *)
(* input() raises EOFError.                                                *)
(***************************************************************************)
MaxLines == 2

InteractiveVariants == {"tavily", "nutrition"}
Lines == {"ping", "q", "Q"}
InputStreams == UNION {[1..n -> Lines] : n \in 0..MaxLines}

InitCli ==
    /\ variant \in InteractiveVariants
    /\ environ \in Environments(variant)
    /\ pathExists \in (IF Truthy(environ["OPENNUTRITION_MCP_PATH"]) THEN BOOLEAN ELSE {FALSE})
    /\ pc = "idle"
    /\ user_message = None
    /\ server_params = NoServerParams
    /\ connOpen = FALSE
    /\ launched = 0 /\ acquired = 0 /\ released = 0
    /\ tools_response = <<>>
    /\ anthropic_tools = <<>>
    /\ messages = <<>>
    /\ response = NoResponse
    /\ final_response = NoResponse
    /\ tool_use_blocks = <<>>
    /\ blockIdx = 0
    /\ received = <<>>
    /\ modelReqs = <<>>
    /\ calls = <<>>
    /\ toolDone = 0
    /\ nextId = 1
    /\ result = None
    /\ error = None
    /\ stdin \in InputStreams
    /\ lineNo = 0
    /\ sessions = <<>>
    /\ cliPc = "prompt"

runVars == <<user_message, server_params, connVars, menuVars, loopVars,
             histVars, result, error>>

\* input() returns the next line; "q" leaves the loop, any other line is
\* handed to search()
ReadLine ==
    /\ cliPc = "prompt"
    /\ lineNo < Len(stdin)
    /\ lineNo' = lineNo + 1
    /\ IF stdin[lineNo'] = "q"
       THEN /\ cliPc' = "stopped"
            /\ UNCHANGED sessions
       ELSE /\ cliPc' = "searching"
            /\ sessions' = Append(sessions, stdin[lineNo'])
    /\ UNCHANGED <<envVars, stdin, pc, runVars>>

\* input() at the end of standard input raises EOFError
ReadEof ==
    /\ cliPc = "prompt"
    /\ lineNo = Len(stdin)
    /\ cliPc' = "crashed"
    /\ UNCHANGED <<envVars, stdin, lineNo, sessions, pc, runVars>>

\* searcher.search(user_input): asyncio.run(self.search_with_mcp(query))
Search ==
    /\ cliPc = "searching"
    /\ Run(stdin[lineNo])

\* search() returned: its locals are gone, the loop prompts again
SearchReturns ==
    /\ cliPc = "searching"
    /\ pc = "done"
    /\ cliPc' = "prompt"
    /\ pc' = "idle"
    /\ user_message' = None
    /\ server_params' = NoServerParams
    /\ tools_response' = <<>>
    /\ anthropic_tools' = <<>>
    /\ messages' = <<>>
    /\ response' = NoResponse
    /\ final_response' = NoResponse
    /\ tool_use_blocks' = <<>>
    /\ blockIdx' = 0
    /\ received' = <<>>
    /\ modelReqs' = <<>>
    /\ calls' = <<>>
    /\ toolDone' = 0
    /\ nextId' = 1
    /\ result' = None
    /\ UNCHANGED <<envVars, connVars, error, stdin, lineNo, sessions>>

\* seeded fault: the loop catches what search() raises and prompts again
SearchRaisesCaught ==
    /\ cliPc = "searching"
    /\ pc = "failed"
    /\ cliPc' = "prompt"
    /\ pc' = "idle"
    /\ UNCHANGED <<envVars, stdin, lineNo, sessions, runVars>>

\* search() raised: the exception leaves the loop and ends the process
SearchRaises ==
    /\ cliPc = "searching"
    /\ pc = "failed"
    /\ cliPc' = "crashed"
    /\ UNCHANGED <<envVars, stdin, lineNo, sessions, pc, runVars>>

\* the responses of these sessions: one text block or one request block
CliShapes == {<<"text">>, <<"tool_use">>}

NextCli ==
    \/ ReadLine
    \/ ReadEof
    \/ Search
    \/ Connect
    \/ ConnectRaises
    \/ InitializeReturns
    \/ InitializeRaises
    \/ \E tl \in MainToolLists : ListToolsReturns(tl)
    \/ ListToolsRaises
    \/ \E stop \in StopReasons, shape \in CliShapes :
          ModelResponds([stop_reason |-> stop, content |-> BuildContent(shape, nextId)])
    \/ ModelRaises
    \/ \E out \in ToolOutputs : ToolReturns(out)
    \/ ToolRaises
    \/ ExitScope
    \/ SearchReturns
    \/ SearchRaises

SpecCli == InitCli /\ [][NextCli]_vars

(***************************************************************************)
(* C21: the command-line loop of the interactive scripts runs one session  *)
(* for every line read that is not the sentinel, in input order; the       *)
(* transcript of a session starts as the one user turn holding the line    *)
(* the session was started for, whatever earlier sessions held; the loop   *)
(* stops on the line that is exactly "q" without starting a session; and   *)
(* once a session has raised, no further line is read and no further       *)
(* session is started.                                                     *)
(***************************************************************************)
LinesRead == SubSeq(stdin, 1, lineNo)

C21_SessionPerLine ==
    \* one call of search() per line read that is not "q", in input order
    /\ sessions = SelectSeq(LinesRead, LAMBDA l : l # "q")
    \* at most one session has not finished, and it is the last one called
    /\ launched <= Len(sessions)
    /\ launched - released \in {0, 1}
    /\ cliPc = "prompt" => (pc = "idle" /\ launched = released)
    \* nothing is read behind the sentinel, which starts no session
    /\ \A k \in 1..(lineNo - 1) : stdin[k] # "q"
    /\ cliPc = "stopped" <=> (lineNo > 0 /\ stdin[lineNo] = "q")
    /\ cliPc = "stopped" => pc = "idle"
    \* the session in progress is the one of the line read last
    /\ pc # "idle" =>
          /\ cliPc \in {"searching", "crashed"}
          /\ user_message = stdin[lineNo]
          /\ user_message = sessions[Len(sessions)]
    \* its transcript starts with that line only
    /\ Len(messages) > 0 =>
          /\ messages[1].role = "user"
          /\ messages[1].content = stdin[lineNo]
    /\ Len(modelReqs) > 0 =>
          /\ Len(modelReqs[1].messages) = 1
          /\ modelReqs[1].messages[1].content = stdin[lineNo]
    /\ cliPc = "crashed" => (pc = "failed" \/ (pc = "idle" /\ lineNo = Len(stdin)))

C21_ErrorEndsLoop ==
    [][(pc = "failed" \/ cliPc \in {"stopped", "crashed"}) =>
          /\ lineNo' = lineNo
          /\ sessions' = sessions
          /\ pc' = pc
          /\ launched' = launched
      ]_vars

C21_OneSessionPerLine == []C21_SessionPerLine /\ C21_ErrorEndsLoop

\* the second of two lines ("Q", which is not the sentinel) had its own
\* session after the first returned
C21_Witness_TwoSessions ==
    /\ stdin = <<"ping", "Q">>
    /\ sessions = <<"ping", "Q">>
    /\ pc = "done"
    /\ launched = 2
    /\ messages[1].content = "Q"
    /\ Len(messages) = 3

\* the sentinel after one session stopped the loop
C21_Witness_StoppedOnSentinel ==
    /\ stdin = <<"ping", "q">>
    /\ cliPc = "stopped"
    /\ sessions = <<"ping">>
    /\ launched = 1

\* a session that raised ended the loop with a line left unread
C21_Witness_CrashLeavesLine ==
    /\ cliPc = "crashed"
    /\ pc = "failed"
    /\ lineNo = 1
    /\ Len(stdin) = 2

(***************************************************************************)
(* C22: in the Tavily and nutrition variants, every model turn is          *)
(* requested with a transcript whose last turn has role user, also after a *)
(* response with stop reason tool use that holds no request block.         *)
(***************************************************************************)
LastRole(msgs) == msgs[Len(msgs)].role

C22_LastTurnIsUser ==
    variant \in LoopingVariants =>
        \A k \in 1..Len(modelReqs) : LastRole(modelReqs[k].messages) = "user"

\* the same statement for the turns requested after a response that holds
\* a request block
C22_AfterRequests_LastTurnIsUser ==
    variant \in LoopingVariants =>
        \A k \in 1..Len(modelReqs) :
            (k = 1 \/ RequestIdx(received[k - 1].content) # {}) =>
                LastRole(modelReqs[k].messages) = "user"

(***************************************************************************)
(* C23: in the single-tool variants (video search, web search) a response  *)
(* with stop reason tool use that holds no request block makes run() fail  *)
(* with an error: nothing is appended to the transcript for it, no tool    *)
(* call and no further model turn is issued, and the connection is         *)
(* released.                                                               *)
(***************************************************************************)
SingleToolVariants == {"youtube", "websearch"}

EmptyToolUse ==
    /\ Len(received) > 0
    /\ LastResponse.stop_reason = "tool_use"
    /\ RequestIdx(LastResponse.content) = {}

FailedOnResponse ==
    /\ error = "RuntimeError"
    /\ result = None
    /\ pc \in {"exiting", "failed"}
    /\ messages = modelReqs[Len(modelReqs)].messages
    /\ Len(modelReqs) = Len(received)
    /\ Len(calls) = toolDone
    /\ pc = "exiting" => (connOpen /\ released = 0)
    /\ pc = "failed" => (~connOpen /\ released = 1)

C23_NoRequestBlockFails ==
    (variant \in SingleToolVariants /\ EmptyToolUse) => FailedOnResponse

\* the same statement for the responses the scripts look at: every response
\* of the video-search variant, the first of the web-search variant
C23_Examined_NoRequestBlockFails ==
    (variant \in SingleToolVariants /\ EmptyToolUse
        /\ (variant = "youtube" \/ Len(received) = 1)) => FailedOnResponse

\* the second response of a video-search run had nothing to dispatch
C23_Examined_Witness ==
    /\ variant = "youtube"
    /\ EmptyToolUse
    /\ Len(received) = 2
    /\ toolDone = 1
    /\ Len(messages) = 3
    /\ pc = "failed"
    /\ released = 1

(***************************************************************************)
(* C24: within one run the tool menu and the system instruction are fixed  *)
(* once the tools are discovered: every model-turn request of the run      *)
(* carries the same menu and the same system instruction.  A step that     *)
(* takes a tool result changes the transcript only, by appending to it.    *)
(* Every call_tool carries the name and the input of a request block of    *)
(* the most recent model response, unmodified.                             *)
(***************************************************************************)
C24_SameMenuEveryTurn ==
    \A k \in 1..Len(modelReqs) :
        /\ modelReqs[k].tools = modelReqs[1].tools
        /\ modelReqs[k].system = modelReqs[1].system
        /\ modelReqs[k].tools = anthropic_tools
        /\ Len(modelReqs[k].tools) = Len(tools_response)

C24_DispatchFrame ==
    [][/\ pc \in {"awaitModel", "awaitTool"} =>
              UNCHANGED <<anthropic_tools, tools_response, user_message,
                          server_params, environ>>
       /\ pc = "awaitTool" =>
              /\ UNCHANGED <<response, final_response, tool_use_blocks, result>>
              /\ pc' # "exiting" => IsPrefix(messages, messages')
       /\ Len(calls') > Len(calls) =>
              /\ Len(calls') = Len(calls) + 1
              /\ \E i \in RequestIdx(received'[Len(received')].content) :
                    LET block == received'[Len(received')].content[i]
                        call == calls'[Len(calls')]
                    IN /\ call.name = block.name
                       /\ call.input = block.input
                       /\ call.id = block.id
      ]_vars

C24_MenuAndCallsUnmodified == []C24_SameMenuEveryTurn /\ C24_DispatchFrame

\* a second model turn was requested with the two-tool menu of the first,
\* after two calls for the two request blocks of the first response
C24_Witness_SecondTurnSameMenu ==
    /\ Len(modelReqs) = 2
    /\ Len(anthropic_tools) = 2
    /\ modelReqs[2].tools = modelReqs[1].tools
    /\ modelReqs[2].system = "fitness only"
    /\ Len(calls) = 2
    /\ calls[1].name # calls[2].name
    /\ pc = "awaitModel"

(***************************************************************************)
(* C25: in the variants that loop over model turns (Tavily, nutrition,     *)
(* video search), whenever a model turn is requested the number of model   *)
(* turns completed equals the number of assistant turns on the transcript  *)
(* and the transcript holds 1 + (assistant turns) + (tool calls completed) *)
(* turns.  Hence when run() returns, the model turns issued are the        *)
(* assistant turns plus one: the assistant turns are the earlier           *)
(* responses, in order, and the final response is not on the transcript.   *)
(***************************************************************************)
TurnLoopVariants == LoopingVariants \cup {"youtube"}

NumAssistant(msgs) == Cardinality({i \in 1..Len(msgs) : msgs[i].role = "assistant"})
NumResults(msgs) == Cardinality({i \in 2..Len(msgs) : msgs[i].role = "user"})

\* the k-th assistant turn of the transcript
KthAssistant(k) ==
    messages[CHOOSE i \in AssistantIdx :
                Cardinality({j \in AssistantIdx : j <= i}) = k]

C25_TurnCounts ==
    variant \in TurnLoopVariants =>
        /\ pc = "awaitModel" =>
              /\ Len(received) = NumAssistant(messages)
              /\ Len(messages) = 1 + NumAssistant(messages) + toolDone
        /\ \A k \in 1..Len(modelReqs) :
              /\ NumAssistant(modelReqs[k].messages) = k - 1
              /\ Len(modelReqs[k].messages)
                    = 1 + (k - 1) + NumResults(modelReqs[k].messages)
        /\ (pc \in Returning /\ result # None) =>
              /\ Len(modelReqs) = NumAssistant(messages) + 1
              /\ Len(received) = Len(modelReqs)
              /\ Len(messages) = 1 + NumAssistant(messages) + toolDone
              /\ \A k \in 1..NumAssistant(messages) :
                    KthAssistant(k).content = received[k].content

\* a run returned after one tool-use response with two request blocks: two
\* model turns, one assistant turn, four turns on the transcript
C25_Witness_ReturnedAfterTwoTurns ==
    /\ variant \in LoopingVariants
    /\ pc = "done"
    /\ result # None
    /\ Len(modelReqs) = 2
    /\ NumAssistant(messages) = 1
    /\ toolDone = 2
    /\ Len(messages) = 4

====
